---- MODULE Spec2Model ----
(***************************************************************************)
(* Model of the HypersyncHelper derivation layer (hypersyncHelper.ts) and  *)
(* of the tools that wrap it (index.ts).                                   *)
(*                                                                         *)
(* Four specifications share the registry state:                           *)
(*   Spec       concurrently running derivation operations, each split at  *)
(*              its awaits (query service, decoder); data is abstract.     *)
(*   SpecCalls  one caller issuing calls one after the other, with the     *)
(*              decoded events / probe payloads the call works on.         *)
(*   SpecFilter the log filters the balance queries build, matched         *)
(*              against logs of the ledger.                                *)
(*   SpecSerialize  serializeBigInts applied to nested structures.         *)
(***************************************************************************)
EXTENDS Integers, Sequences, FiniteSets, TLC

\* ---------------------------------------------------------------- bounds
MaxChainId == 2      \* chain ids 1..MaxChainId are offered, besides chain 10
NumTasks == 2        \* concurrently running derivation operations
MaxBuilds == 3       \* cap of the construction counters
MaxLogs == 3         \* decoded logs in one answer to getTokenBalances / getDexSwaps
MaxNftLogs == 2      \* decoded logs in one answer to getNFTBalances
MaxAmount == 2       \* transferred amounts are 0..MaxAmount
MaxLedger == 2
MaxItems == 2        \* longest array of the serialized structures       \* logs of the ledger a query is matched against

\* ------------------------------------------------------------- registry
VARIABLES clients, decoder, built, decoderBuilt

\* Spec: one record per running derivation operation
VARIABLES pc, op, chain, handle, result, queries

\* SpecCalls: the last call of the sequential caller, what the query service
\* and the decoder answered in it, what the helper did and what the tool returned
VARIABLES callOp, callChain, callInput, helperResult, outcome

\* SpecFilter: the operation that built the last query, its wallet argument,
\* the query's log filters and the ledger logs the query service selected
VARIABLES qOp, qWallet, qLogs, qSelected

regVars == <<clients, decoder, built, decoderBuilt>>
filterVars == <<qOp, qWallet, qLogs, qSelected>>
callVars == <<callOp, callChain, callInput, helperResult, outcome>>
taskVars == <<pc, op, chain, handle, result, queries>>

\* keys of SUPPORTED_CHAINS
SUPPORTED_CHAINS ==
  { 1, 10, 14, 30, 42, 44, 46, 56, 97, 100, 130, 137, 148, 169, 204, 250, 252,
    255, 288, 324, 1088, 1101, 1135, 1284, 1287, 1301, 1750, 1868, 2818, 4200,
    4201, 5000, 5115, 7000, 7560, 8453, 8888, 10143, 10200, 11155111, 11155420,
    17000, 17864, 34443, 42161, 42170, 42220, 43114, 43113, 48900, 50104, 57073,
    59144, 80002, 80084, 80094, 81457, 84532, 168587773, 283027429, 421614,
    531050104, 534352, 696969, 1313161554, 1666600000, 7225878, 7777777 }

\* chain ids a caller passes: 1 and 10 are in the catalog, 2.. are not
ChainIds == (1..MaxChainId) \cup {10}

\* clients.get(chainId) of an absent key, and the unassigned static decoder
NoClient == 0
NoDecoder == 0

Min(a, b) == IF a < b THEN a ELSE b

RECURSIVE SumBuilt(_, _)
SumBuilt(f, S) ==
  IF S = {} THEN 0
  ELSE LET c == CHOOSE x \in S : TRUE IN f[c] + SumBuilt(f, S \ {c})

\* HypersyncClient.new(...): a fresh object, told apart by its serial number
NewClient == SumBuilt(built, ChainIds) + 1

\* variant: initialize without the catalog test
initializeNeverThrows(chainId) == FALSE

\* `!this.SUPPORTED_CHAINS[chainId]`
initializeThrows(chainId) == chainId \notin SUPPORTED_CHAINS

\* variant: initialize that caches no client
initializeCachesNothing(chainId) == UNCHANGED regVars

\* variant: initialize without the `!this.clients.has(chainId)` test
initializeNoHasCheck(chainId) ==
  /\ clients' = [clients EXCEPT ![chainId] = NewClient]
  /\ built' = [built EXCEPT ![chainId] = Min(@ + 1, MaxBuilds)]
  /\ IF decoder = NoDecoder
       THEN /\ decoder' = decoderBuilt + 1
            /\ decoderBuilt' = Min(decoderBuilt + 1, MaxBuilds)
       ELSE UNCHANGED <<decoder, decoderBuilt>>

\* variant: initialize that caches the client and builds no decoder
initializeWithoutDecoder(chainId) ==
  IF clients[chainId] = NoClient
    THEN /\ clients' = [clients EXCEPT ![chainId] = NewClient]
         /\ built' = [built EXCEPT ![chainId] = Min(@ + 1, MaxBuilds)]
         /\ UNCHANGED <<decoder, decoderBuilt>>
    ELSE UNCHANGED regVars

\* variant: initialize that builds the decoder with every new client
initializeDecoderPerClient(chainId) ==
  IF clients[chainId] = NoClient
    THEN /\ clients' = [clients EXCEPT ![chainId] = NewClient]
         /\ built' = [built EXCEPT ![chainId] = Min(@ + 1, MaxBuilds)]
         /\ decoder' = decoderBuilt + 1
         /\ decoderBuilt' = Min(decoderBuilt + 1, MaxBuilds)
    ELSE UNCHANGED regVars

\* initialize(chainId) past its throw: the registry after the call
initialize(chainId) ==
  IF clients[chainId] = NoClient
    THEN /\ clients' = [clients EXCEPT ![chainId] = NewClient]
         /\ built' = [built EXCEPT ![chainId] = Min(@ + 1, MaxBuilds)]
         /\ IF decoder = NoDecoder
              THEN /\ decoder' = decoderBuilt + 1
                   /\ decoderBuilt' = Min(decoderBuilt + 1, MaxBuilds)
              ELSE UNCHANGED <<decoder, decoderBuilt>>
    ELSE UNCHANGED regVars

\* getClient(chainId) on a client map cl: the handle, or NoClient when it throws
getClient(cl, chainId) == cl[chainId]

\* ======================================================================
\* Values.  A JS string is a sequence of one-character strings; a JS value
\* that reaches the tool layer is a tagged record.
\* ======================================================================
JBig(n) == [t |-> "bigint", v |-> n]
JNum(n) == [t |-> "number", v |-> n]
JStr(s) == [t |-> "string", v |-> s]
JArr(a) == [t |-> "array", v |-> a]
\* an object: its own enumerable properties in insertion order
JObj(props) == [t |-> "object", v |-> props]
JUndef == [t |-> "undefined", v |-> 0]
Prop(k, v) == [key |-> k, val |-> v]

DigitChars == <<"0", "1", "2", "3", "4", "5", "6", "7", "8", "9">>

\* BigInt.prototype.toString() / Number.prototype.toString() of n >= 0
RECURSIVE toStringDec(_)
toStringDec(n) ==
  IF n < 10 THEN <<DigitChars[n + 1]>>
  ELSE toStringDec(n \div 10) \o <<DigitChars[(n % 10) + 1]>>

\* A bigint beyond the range of the model's machine integers: its sign and
\* its magnitude in limbs of three decimal digits, most significant first
\* (the first limb is not 0 unless the value is 0).
JBigWide(neg, limbs) == [t |-> "bigint", neg |-> neg, limbs |-> limbs]

\* variant: a limb is printed without its leading zeros
limbDigitsUnpadded(l) == toStringDec(l)

\* the three digits of a limb that is not the first
limbDigits(l) ==
  <<DigitChars[(l \div 100) + 1], DigitChars[((l \div 10) % 10) + 1],
    DigitChars[(l % 10) + 1]>>

RECURSIVE limbsToString(_, _)
limbsToString(limbs, i) ==
  IF i > Len(limbs) THEN <<>>
  ELSE (IF i = 1 THEN toStringDec(limbs[1]) ELSE limbDigits(limbs[i]))
         \o limbsToString(limbs, i + 1)

\* BigInt.prototype.toString() of either representation
bigintToString(obj) ==
  IF "limbs" \in DOMAIN obj
    THEN (IF obj.neg THEN <<"-">> ELSE <<>>) \o limbsToString(obj.limbs, 1)
    ELSE toStringDec(obj.v)

S_undefined == <<"u", "n", "d", "e", "f", "i", "n", "e", "d">>
S_objectObject ==
  <<"[", "o", "b", "j", "e", "c", "t", " ", "O", "b", "j", "e", "c", "t", "]">>
S_ERC721 == <<"E", "R", "C", "7", "2", "1">>
S_ERC1155 == <<"E", "R", "C", "1", "1", "5", "5">>
S_0x == <<"0", "x">>

\* ---------------------------------------------------------------- Map
\* A Map<string, V> is the sequence of its entries in insertion order.
MapHas(m, k) == \E i \in 1..Len(m) : m[i].key = k
MapGet(m, k) == m[CHOOSE i \in 1..Len(m) : m[i].key = k].val

\* variant: an array push in place of Map.set
MapPush(m, k, v) == Append(m, Prop(k, v))

\* Map.prototype.set: replaces the value of a present key in place
MapSet(m, k, v) ==
  IF MapHas(m, k)
    THEN [i \in 1..Len(m) |-> IF m[i].key = k THEN Prop(k, v) ELSE m[i]]
    ELSE Append(m, Prop(k, v))

\* ------------------------------------------------------- event catalog
ERC20_TRANSFER_TOPIC == "0xddf252ad1be2c89b69c2b068fc378daa952ba7f163c4a11628f55a4df523b3ef"
ERC721_TRANSFER_TOPIC == "0xddf252ad1be2c89b69c2b068fc378daa952ba7f163c4a11628f55a4df523b3ef"
ERC1155_TRANSFER_SINGLE_TOPIC == "0xc3d58168c5ae7397731d063d5bbf3d657854427343f4c083240f7aacaa2d0f62"
ERC1155_TRANSFER_BATCH_TOPIC == "0x4a39dc06d4c0dbc64b70af90fd698a233a518aa5d07e595d983b8c0526c8f7fb"

\* ------------------------------------------------------ decoded events
\* decodeLogs answers one entry per log: null, or an event with the emitting
\* address, topic0 and the decoded non-indexed fields, each a {val} object.
NullLog == [isNull |-> TRUE]
Event(a, t0, b) == [isNull |-> FALSE, address |-> a, topic0 |-> t0, body |-> b]
SolValue(n) == [val |-> n]

\* a thrown Error object
Error(name, message) == [name |-> name, message |-> message]
Threw(e) == [threw |-> TRUE, error |-> e]
Returned(v) == [threw |-> FALSE, value |-> v]
TypeErrorUndefined == Error("TypeError", [msg |-> "Cannot read properties of undefined"])
TypeErrorNull == Error("TypeError", [msg |-> "Cannot read properties of null"])
TypeErrorBigInt == Error("TypeError", [msg |-> "Do not know how to serialize a BigInt"])

\* String(x) of a decoded field value: the digits of val when the value type
\* defines toString, "[object Object]" when it is a plain object
SolToString(x, plainObjects) ==
  IF plainObjects THEN S_objectObject ELSE toStringDec(x.val)

\* ---------------------------------------------------- getTokenBalances
\* variant: the running total is overwritten by the amount
addAmountOverwrite(balances, token, amount) == MapSet(balances, token, amount)

\* balances.set(token, (balances.get(token) || BigInt(0)) + amount)
addAmount(balances, token, amount) ==
  MapSet(balances, token,
         (IF MapHas(balances, token) /\ MapGet(balances, token) # 0
            THEN MapGet(balances, token) ELSE 0) + amount)

\* the loop over decodedLogs from its i-th entry on
RECURSIVE tokenBalancesLoop(_, _, _)
tokenBalancesLoop(decodedLogs, i, balances) ==
  IF i > Len(decodedLogs) THEN Returned(balances)
  ELSE LET log == decodedLogs[i] IN
    IF log.isNull THEN tokenBalancesLoop(decodedLogs, i + 1, balances)
    ELSE IF Len(log.body) = 0 THEN Threw(TypeErrorUndefined)
    ELSE tokenBalancesLoop(decodedLogs, i + 1,
                           addAmount(balances, log.address, log.body[1].val))

\* getTokenBalances after its awaits: the fold and the returned array
getTokenBalances(decodedLogs) ==
  LET r == tokenBalancesLoop(decodedLogs, 1, <<>>) IN
  IF r.threw THEN r
  ELSE Returned([i \in 1..Len(r.value) |->
                   [token |-> r.value[i].key, balance |-> r.value[i].val]])

\* ------------------------------------------------------ getNFTBalances
\* `${log.address}-${log.body[0]}`; an absent body[0] prints "undefined"
nftKey(log, plainObjects) ==
  log.address \o <<"-">> \o
    (IF Len(log.body) = 0 THEN S_undefined ELSE SolToString(log.body[1], plainObjects))

\* a decoded field value handed on as it is: the {val} object
SolJs(x) == JObj(<<Prop("val", JBig(x.val))>>)

\* the object stored for an ERC721 Transfer
erc721Entry(log, plainObjects) ==
  [contractAddress |-> log.address,
   tokenId |-> SolToString(log.body[1], plainObjects),
   standard |-> S_ERC721,
   balance |-> JBig(1)]

\* the object stored for an ERC1155 TransferSingle
erc1155Entry(log, plainObjects) ==
  [contractAddress |-> log.address,
   tokenId |-> SolToString(log.body[1], plainObjects),
   standard |-> S_ERC1155,
   balance |-> IF Len(log.body) >= 2 THEN SolJs(log.body[2]) ELSE JUndef]

\* variant: an entry is stored only for a key not seen yet (first event wins)
nftSetIfAbsent(nftBalances, key, entry) ==
  IF MapHas(nftBalances, key) THEN nftBalances ELSE MapSet(nftBalances, key, entry)

\* nftBalances.set(key, {...})
nftSet(nftBalances, key, entry) == MapSet(nftBalances, key, entry)

\* the loop over decodedLogs from its i-th entry on; log.body[0].toString()
\* throws on an event without a body field
RECURSIVE nftBalancesLoop(_, _, _, _)
nftBalancesLoop(decodedLogs, i, nftBalances, plainObjects) ==
  IF i > Len(decodedLogs) THEN Returned(nftBalances)
  ELSE LET log == decodedLogs[i] IN
    IF log.isNull THEN nftBalancesLoop(decodedLogs, i + 1, nftBalances, plainObjects)
    ELSE IF log.topic0 = ERC721_TRANSFER_TOPIC THEN
      IF Len(log.body) = 0 THEN Threw(TypeErrorUndefined)
      ELSE nftBalancesLoop(decodedLogs, i + 1,
             nftSet(nftBalances, nftKey(log, plainObjects),
                    erc721Entry(log, plainObjects)), plainObjects)
    ELSE IF log.topic0 = ERC1155_TRANSFER_SINGLE_TOPIC THEN
      IF Len(log.body) = 0 THEN Threw(TypeErrorUndefined)
      ELSE nftBalancesLoop(decodedLogs, i + 1,
             nftSet(nftBalances, nftKey(log, plainObjects),
                    erc1155Entry(log, plainObjects)), plainObjects)
    ELSE nftBalancesLoop(decodedLogs, i + 1, nftBalances, plainObjects)

\* getNFTBalances after its awaits: Array.from(nftBalances.values())
getNFTBalances(decodedLogs, plainObjects) ==
  LET r == nftBalancesLoop(decodedLogs, 1, <<>>, plainObjects) IN
  IF r.threw THEN r
  ELSE Returned([i \in 1..Len(r.value) |-> r.value[i].val])

\* ---------------------------------------------------------- getDexSwaps
\* the row decodedLogs.map builds of a decoded log (the decoded event carries
\* no transactionHash, blockNumber or timestamp)
swapRow(log) ==
  [transactionHash |-> JUndef, blockNumber |-> JUndef, timestamp |-> JUndef,
   tokenIn |-> log.address, tokenOut |-> log.address,
   amountIn |-> JBig(0), amountOut |-> JBig(0),
   sender |-> S_0x, recipient |-> S_0x]

\* getDexSwaps after its awaits: log.transactionHash of a null entry throws
getDexSwaps(decodedLogs) ==
  IF \E i \in 1..Len(decodedLogs) : decodedLogs[i].isNull
    THEN Threw(TypeErrorNull)
    ELSE Returned([i \in 1..Len(decodedLogs) |-> swapRow(decodedLogs[i])])

\* ----------------------------------------------------- getTokenMetadata
\* Object.keys(ERC20_INTERFACES), in declaration order
K_name == <<"n", "a", "m", "e">>
K_symbol == <<"s", "y", "m", "b", "o", "l">>
K_decimals == <<"d", "e", "c", "i", "m", "a", "l", "s">>
K_totalSupply == <<"t", "o", "t", "a", "l", "S", "u", "p", "p", "l", "y">>
ERC20_INTERFACE_KEYS == <<K_name, K_symbol, K_decimals, K_totalSupply>>

\* the defaults the fields start from
S_Unknown == <<"U", "n", "k", "n", "o", "w", "n">>
S_UNKNOWN == <<"U", "N", "K", "N", "O", "W", "N">>
DEFAULT_DECIMALS == 18
DEFAULT_TOTAL_SUPPLY == 0

HexDigits == <<"0", "1", "2", "3", "4", "5", "6", "7", "8", "9",
               "a", "b", "c", "d", "e", "f">>
HexChars == {HexDigits[d] : d \in 1..16}
IsHexChar(c) == c \in HexChars
HexVal(c) == (CHOOSE d \in 1..16 : HexDigits[d] = c) - 1

\* parseInt's NaN
NaN == -1

\* String.prototype.slice(a, b) for 0 <= a, 0 <= b
Slice(s, a, b) == SubSeq(s, a + 1, Min(b, Len(s)))

\* the length of the longest prefix of s made of hex digits
HexPrefixLen(s) ==
  LET bad == {i \in 1..Len(s) : ~IsHexChar(s[i])}
  IN IF bad = {} THEN Len(s)
     ELSE (CHOOSE i \in bad : \A j \in bad : i <= j) - 1

RECURSIVE Pow16(_)
Pow16(k) == IF k = 0 THEN 1 ELSE 16 * Pow16(k - 1)

\* the value of the hex digits s[1..n], summed over its non-zero digits
RECURSIVE HexSum(_, _, _)
HexSum(s, n, I) ==
  IF I = {} THEN 0
  ELSE LET i == CHOOSE x \in I : TRUE
       IN HexVal(s[i]) * Pow16(n - i) + HexSum(s, n, I \ {i})
HexValue(s, n) == HexSum(s, n, {i \in 1..n : s[i] # "0"})

\* parseInt(s, 16): the value of the longest prefix of hex digits, NaN if none
parseInt16(s) ==
  LET n == HexPrefixLen(s) IN IF n = 0 THEN NaN ELSE HexValue(s, n)

\* the characters of the byte values the model's payloads use (ASCII)
Utf8Char(b) ==
  CASE b = 85 -> "U" [] b = 83 -> "S" [] b = 68 -> "D" [] b = 67 -> "C"
    [] b = 65 -> "A" [] b = 73 -> "I" [] OTHER -> "?"

\* Buffer.from(hex, 'hex').toString('utf8')
hexToUtf8(hex) ==
  [i \in 1..(Len(hex) \div 2) |->
     Utf8Char(16 * HexVal(hex[2 * i - 1]) + HexVal(hex[2 * i]))]

\* case 'name' / case 'symbol': length word at 64..128, then the bytes
decodeString(cleanOutput) ==
  LET length == parseInt16(Slice(cleanOutput, 64, 128))
      stringData == Slice(cleanOutput, 128,
                          IF length = NaN THEN 0 ELSE 128 + length * 2)
  IN hexToUtf8(stringData)

\* case 'decimals': parseInt(cleanOutput.slice(0, 64), 16)
decodeDecimals(cleanOutput) == parseInt16(Slice(cleanOutput, 0, 64))

\* case 'totalSupply': BigInt('0x' + cleanOutput.slice(0, 64)) throws a
\* SyntaxError on an empty or non-hex word; the inner catch keeps the default
decodeTotalSupplyThrows(cleanOutput) ==
  LET w == Slice(cleanOutput, 0, 64) IN
  w = <<>> \/ \E i \in 1..Len(w) : ~IsHexChar(w[i])
decodeTotalSupply(cleanOutput) ==
  LET w == Slice(cleanOutput, 0, 64) IN HexValue(w, Len(w))

\* variant: the field is the whole key (const field = Object.keys(...)[index])
fieldOfWholeKey(index) == ERC20_INTERFACE_KEYS[index]

\* const [field] = Object.keys(this.ERC20_INTERFACES)[index]: array
\* destructuring of a string binds its first character
fieldOf(index) == <<Head(ERC20_INTERFACE_KEYS[index])>>

\* a probe's answer: the query rejects, or response.data.transactions?.[0]?.output
\* is undefined, or it is a string
ProbeRejects == [kind |-> "reject", output |-> <<>>]
ProbeUndefined == [kind |-> "undefined", output |-> <<>>]
ProbeOutput(s) == [kind |-> "output", output |-> s]

\* the body of responses.forEach for one response
processResponse(meta, index, probe) ==
  LET field == fieldOf(index)
      output == probe.output
      cleanOutput == Slice(output, 2, Len(output))
  IN IF probe.kind = "output" /\ output # <<>> /\ output # S_0x
       THEN IF field = K_name THEN [meta EXCEPT !.name = decodeString(cleanOutput)]
            ELSE IF field = K_symbol
              THEN [meta EXCEPT !.symbol = decodeString(cleanOutput)]
            ELSE IF field = K_decimals
              THEN [meta EXCEPT !.decimals = decodeDecimals(cleanOutput)]
            ELSE IF field = K_totalSupply
              THEN IF decodeTotalSupplyThrows(cleanOutput) THEN meta
                   ELSE [meta EXCEPT !.totalSupply = decodeTotalSupply(cleanOutput)]
            ELSE meta
       ELSE meta

RECURSIVE processResponses(_, _, _)
processResponses(meta, index, probes) ==
  IF index > Len(probes) THEN meta
  ELSE processResponses(processResponse(meta, index, probes[index]), index + 1, probes)

QueryServiceError == Error("Error", [msg |-> "query service failure"])

\* getTokenMetadata from its try block on: Promise.all rejects when a probe
\* does, and the catch rethrows
getTokenMetadata(tokenAddress, probes) ==
  IF \E i \in 1..Len(probes) : probes[i].kind = "reject"
    THEN Threw(Error("Error", [msg |-> "Failed to fetch token metadata",
                               cause |-> QueryServiceError.message]))
    ELSE Returned(processResponses(
           [address |-> tokenAddress, name |-> S_Unknown, symbol |-> S_UNKNOWN,
            decimals |-> DEFAULT_DECIMALS, totalSupply |-> DEFAULT_TOTAL_SUPPLY],
           1, probes))

\* ============================================================ index.ts
\* serializeBigInts(obj)
RECURSIVE serializeBigInts(_)
serializeBigInts(obj) ==
  IF obj.t = "bigint" THEN JStr(bigintToString(obj))
  ELSE IF obj.t = "array"
    THEN JArr([i \in 1..Len(obj.v) |-> serializeBigInts(obj.v[i])])
  ELSE IF obj.t = "object"
    THEN JObj([i \in 1..Len(obj.v) |->
                 Prop(obj.v[i].key, serializeBigInts(obj.v[i].val))])
  ELSE obj

RECURSIVE HasBigInt(_)
HasBigInt(x) ==
  IF x.t = "bigint" THEN TRUE
  ELSE IF x.t = "array" THEN \E i \in 1..Len(x.v) : HasBigInt(x.v[i])
  ELSE IF x.t = "object" THEN \E i \in 1..Len(x.v) : HasBigInt(x.v[i].val)
  ELSE FALSE

\* JSON.stringify(x): throws a TypeError on a bigint; the text is kept as the
\* tree it prints
JSONstringify(x) ==
  IF HasBigInt(x) THEN Threw(TypeErrorBigInt)
  ELSE Returned([t |-> "json", v |-> x])

\* variant: a tool without the try/catch
toolRethrow(error) == [escaped |-> error]

\* catch (error) { return { success: false, error: (error as Error).message } }
toolCatch(error) == [success |-> FALSE, error |-> error.message]

\* a tool's execute around the helper's outcome r: serializeBigInts (when
\* the tool applies it), JSON.stringify, and the catch
toolExecute(r, serialize) ==
  IF r.threw THEN toolCatch(r.error)
  ELSE LET j == JSONstringify(IF serialize THEN serializeBigInts(r.value)
                               ELSE r.value)
       IN IF j.threw THEN toolCatch(j.error)
          ELSE [success |-> TRUE, data |-> j.value]

\* getLatestBlockTool: data is blockNumber.toString()
latestBlockExecute(r) ==
  IF r.threw THEN toolCatch(r.error)
  ELSE IF r.value.t = "undefined" THEN toolCatch(TypeErrorUndefined)
  ELSE [success |-> TRUE, data |-> JStr(toStringDec(r.value.v))]

\* the views as the values the tools receive
TokenBalancesJs(view) ==
  JArr([i \in 1..Len(view) |->
          JObj(<<Prop("token", JStr(view[i].token)),
                 Prop("balance", JBig(view[i].balance))>>)])
NFTBalancesJs(view) ==
  JArr([i \in 1..Len(view) |->
          JObj(<<Prop("contractAddress", JStr(view[i].contractAddress)),
                 Prop("tokenId", JStr(view[i].tokenId)),
                 Prop("standard", JStr(view[i].standard)),
                 Prop("balance", view[i].balance)>>)])
DexSwapsJs(view) ==
  JArr([i \in 1..Len(view) |->
          JObj(<<Prop("transactionHash", view[i].transactionHash),
                 Prop("blockNumber", view[i].blockNumber),
                 Prop("timestamp", view[i].timestamp),
                 Prop("tokenIn", JStr(view[i].tokenIn)),
                 Prop("tokenOut", JStr(view[i].tokenOut)),
                 Prop("amountIn", view[i].amountIn),
                 Prop("amountOut", view[i].amountOut),
                 Prop("sender", JStr(view[i].sender)),
                 Prop("recipient", JStr(view[i].recipient))>>)])
TokenMetadataJs(m) ==
  JObj(<<Prop("address", JStr(m.address)), Prop("name", JStr(m.name)),
         Prop("symbol", JStr(m.symbol)), Prop("decimals", JNum(m.decimals)),
         Prop("totalSupply", JBig(m.totalSupply))>>)

\* the helper's outcome as the tool sees it
TokenBalancesResult(r) == IF r.threw THEN r ELSE Returned(TokenBalancesJs(r.value))
NFTBalancesResult(r) == IF r.threw THEN r ELSE Returned(NFTBalancesJs(r.value))
DexSwapsResult(r) == IF r.threw THEN r ELSE Returned(DexSwapsJs(r.value))
TokenMetadataResult(r) == IF r.threw THEN r ELSE Returned(TokenMetadataJs(r.value))

\* ------------------------------------------------ derivation operations
\* the helper's async operations
Ops == { "getTransactionDetails", "getTokenBalances", "getNFTBalances",
         "getContractEvents", "getBlockRange", "getLatestBlockNumber",
         "getTokenMetadata", "getDexSwaps", "getWalletActivity",
         "getLiquidityPoolStats" }

\* operations that await this.decoder.decodeLogs after the query
DecodingOps == { "getTokenBalances", "getNFTBalances", "getDexSwaps" }

Tasks == 1..NumTasks

Ok == [kind |-> "ok", wrapped |-> FALSE]
None == [kind |-> "none", wrapped |-> FALSE]
\* a thrown Error; getTokenMetadata rethrows what its try block catches
Thrown(o, kind) == [kind |-> kind, wrapped |-> (o = "getTokenMetadata")]

RegInit ==
  /\ clients = [c \in ChainIds |-> NoClient]
  /\ decoder = NoDecoder
  /\ built = [c \in ChainIds |-> 0]
  /\ decoderBuilt = 0

NoCall == [none |-> TRUE]

CallsInit ==
  /\ callOp = "none"
  /\ callChain = 0
  /\ callInput = NoCall
  /\ helperResult = NoCall
  /\ outcome = NoCall

FilterInit ==
  /\ qOp = "none"
  /\ qWallet = <<>>
  /\ qLogs = <<>>
  /\ qSelected = <<>>

Init ==
  /\ RegInit
  /\ CallsInit
  /\ FilterInit
  /\ pc = [t \in Tasks |-> "idle"]
  /\ op = [t \in Tasks |-> "none"]
  /\ chain = [t \in Tasks |-> 0]
  /\ handle = [t \in Tasks |-> NoClient]
  /\ result = [t \in Tasks |-> None]
  /\ queries = [t \in Tasks |-> 0]

\* the queries an operation hands to getClient(chainId).get before its first
\* await: one, or for getTokenMetadata one per key of ERC20_INTERFACES
\* (queries.map runs every get before Promise.all is awaited)
QueriesOf(o) == IF o = "getTokenMetadata" THEN Len(ERC20_INTERFACE_KEYS) ELSE 1

\* variant: a rejected query is issued again
GetRejectsRetries(t) ==
  /\ pc[t] = "get"
  /\ queries[t] < MaxBuilds
  /\ queries' = [queries EXCEPT ![t] = @ + 1]
  /\ UNCHANGED <<regVars, callVars, filterVars, pc, op, chain, handle, result>>

\* An operation is called and runs to its first await: initialize, the query,
\* getClient(chainId).get(query).  chain and handle are the locals of a
\* running operation: they are gone once it has settled.
Call(t, o, c) ==
  /\ pc[t] = "idle"
  /\ op' = [op EXCEPT ![t] = o]
  /\ UNCHANGED <<callVars, filterVars>>
  /\ IF initializeThrows(c)
       THEN /\ UNCHANGED regVars
            /\ pc' = [pc EXCEPT ![t] = "done"]
            /\ chain' = [chain EXCEPT ![t] = 0]
            /\ handle' = [handle EXCEPT ![t] = NoClient]
            /\ result' = [result EXCEPT ![t] =
                            [kind |-> "UnsupportedChain", wrapped |-> FALSE]]
            /\ UNCHANGED queries
       ELSE /\ initialize(c)
            /\ IF getClient(clients', c) = NoClient
                 THEN /\ pc' = [pc EXCEPT ![t] = "done"]
                      /\ chain' = [chain EXCEPT ![t] = 0]
                      /\ handle' = [handle EXCEPT ![t] = NoClient]
                      /\ result' = [result EXCEPT ![t] = Thrown(o, "ClientNotReady")]
                      /\ UNCHANGED queries
                 ELSE /\ pc' = [pc EXCEPT ![t] = "get"]
                      /\ chain' = [chain EXCEPT ![t] = c]
                      /\ handle' = [handle EXCEPT ![t] = getClient(clients', c)]
                      /\ result' = [result EXCEPT ![t] = None]
                      /\ queries' = [queries EXCEPT ![t] = @ + QueriesOf(o)]

\* the operation's promise settles: its locals are dropped
Settled(t) ==
  /\ chain' = [chain EXCEPT ![t] = 0]
  /\ handle' = [handle EXCEPT ![t] = NoClient]

\* The query service answers (for getTokenMetadata: all four probes have).
GetResolves(t) ==
  /\ pc[t] = "get"
  /\ IF op[t] \in DecodingOps
       THEN /\ pc' = [pc EXCEPT ![t] = "decode"]
            /\ UNCHANGED result
            /\ UNCHANGED <<chain, handle>>
       ELSE /\ pc' = [pc EXCEPT ![t] = "done"]
            /\ result' = [result EXCEPT ![t] = Ok]
            /\ Settled(t)
  /\ UNCHANGED <<regVars, callVars, filterVars, op, queries>>

\* The query service fails: the await throws.
GetRejects(t) ==
  /\ pc[t] = "get"
  /\ pc' = [pc EXCEPT ![t] = "done"]
  /\ result' = [result EXCEPT ![t] = Thrown(op[t], "QueryServiceFailure")]
  /\ Settled(t)
  /\ UNCHANGED <<regVars, callVars, filterVars, op, queries>>

\* decodeLogs answers and the operation folds the decoded logs; the fold
\* throws a TypeError on a log it cannot read (data is abstract here).
DecodeResolves(t, typeError) ==
  /\ pc[t] = "decode"
  /\ pc' = [pc EXCEPT ![t] = "done"]
  /\ result' = [result EXCEPT ![t] =
                  IF typeError THEN Thrown(op[t], "TypeError") ELSE Ok]
  /\ Settled(t)
  /\ UNCHANGED <<regVars, callVars, filterVars, op, queries>>

DecodeRejects(t) ==
  /\ pc[t] = "decode"
  /\ pc' = [pc EXCEPT ![t] = "done"]
  /\ result' = [result EXCEPT ![t] = Thrown(op[t], "DecodeFailure")]
  /\ Settled(t)
  /\ UNCHANGED <<regVars, callVars, filterVars, op, queries>>

\* The caller takes the result; the task can run the next operation.
Return(t) ==
  /\ pc[t] = "done"
  /\ pc' = [pc EXCEPT ![t] = "idle"]
  /\ op' = [op EXCEPT ![t] = "none"]
  /\ result' = [result EXCEPT ![t] = None]
  /\ queries' = [queries EXCEPT ![t] = 0]
  /\ UNCHANGED <<regVars, callVars, filterVars, chain, handle>>

Next ==
  \/ \E t \in Tasks, o \in Ops, c \in ChainIds : Call(t, o, c)
  \/ \E t \in Tasks : GetResolves(t)
  \/ \E t \in Tasks : GetRejects(t)
  \/ \E t \in Tasks, e \in BOOLEAN : DecodeResolves(t, e)
  \/ \E t \in Tasks : DecodeRejects(t)
  \/ \E t \in Tasks : Return(t)

\* ======================================================================
\* SpecCalls: one caller, one call after the other.  Each action is a whole
\* call: initialize, the query, the decoding, the fold, the tool's wrapping.
\* What the query service and the decoder answer is the action's input.
\* ======================================================================
A_a == <<"0", "x", "a">>
A_b == <<"0", "x", "b">>
Addresses == {A_a, A_b}
Amounts == 0..MaxAmount
TokenIds == {1, 2}
NftValues == {1, 2}

SeqsUpTo(S, n) == UNION {[1..k -> S] : k \in 0..n}

\* decoded entries of an answer to the getTokenBalances query
TransferLogs ==
  {NullLog} \cup
  {Event(a, ERC20_TRANSFER_TOPIC, b) :
     a \in Addresses, b \in {<<>>} \cup {<<SolValue(n)>> : n \in Amounts}}

\* decoded entries of an answer to the getNFTBalances query
NftBodies ==
  {<<>>} \cup {<<SolValue(i)>> : i \in TokenIds}
         \cup {<<SolValue(i), SolValue(v)>> : i \in TokenIds, v \in NftValues}
NftLogs ==
  {NullLog} \cup
  {Event(a, t0, b) :
     a \in Addresses,
     t0 \in {ERC721_TRANSFER_TOPIC, ERC1155_TRANSFER_SINGLE_TOPIC},
     b \in NftBodies} \cup
  {Event(a, ERC1155_TRANSFER_BATCH_TOPIC, <<>>) : a \in Addresses}

\* decoded entries of an answer to the getDexSwaps query
SwapLogs == {NullLog} \cup {Event(a, "swap", <<>>) : a \in Addresses}

\* what the awaits of a decoding operation meet
AwaitsOk(logs, plain) == [get |-> "ok", decode |-> "ok", logs |-> logs, plain |-> plain]
GetRejected == [get |-> "reject", decode |-> "none", logs |-> <<>>, plain |-> FALSE]
DecodeRejected == [get |-> "ok", decode |-> "reject", logs |-> <<>>, plain |-> FALSE]
NotReached == [get |-> "none", decode |-> "none", logs |-> <<>>, plain |-> FALSE]

DecodeInputs(Logs, n, Plain) ==
  {GetRejected, DecodeRejected} \cup
  {AwaitsOk(l, p) : l \in SeqsUpTo(Logs, n), p \in Plain}

UnsupportedChainError(chainId) ==
  Error("Error", [msg |-> "Chain ID is not supported", chainId |-> chainId])
ClientNotReadyError(chainId) ==
  Error("Error", [msg |-> "Client for chain ID not initialized", chainId |-> chainId])
DecodeError == Error("Error", [msg |-> "decoder failure"])

\* the registry part of a call: initialize(chainId), unless it throws
Registers(c) == IF initializeThrows(c) THEN UNCHANGED regVars ELSE initialize(c)

\* variant: a call for a chain whose client is cached answers with a kept
\* (empty) view in place of a query
UpToQueryKeepsView(c, rest) ==
  IF initializeThrows(c) THEN Threw(UnsupportedChainError(c))
  ELSE IF clients[c] # NoClient THEN Returned(<<>>)
  ELSE rest

\* a helper operation up to its query: initialize, then getClient
UpToQuery(c, rest) ==
  IF initializeThrows(c) THEN Threw(UnsupportedChainError(c))
  ELSE IF getClient(clients', c) = NoClient THEN Threw(ClientNotReadyError(c))
  ELSE rest

\* ... and through the awaits of a decoding operation
ThroughAwaits(c, in, fold) ==
  UpToQuery(c, IF in.get = "reject" THEN Threw(QueryServiceError)
               ELSE IF in.decode = "reject" THEN Threw(DecodeError)
               ELSE fold)

\* an input is drawn only where the call gets to consume it
Consumes(c, in) == initializeThrows(c) => in = NotReached

\* the caller has taken the last call's outcome
BetweenCalls == callOp = "none"

\* HypersyncHelper.initialize(chainId), called by itself
Initialize(c) ==
  /\ BetweenCalls
  /\ UNCHANGED <<taskVars, filterVars>>
  /\ Registers(c)
  /\ callOp' = "initialize"
  /\ callChain' = c
  /\ callInput' = [hadClient |-> clients[c] # NoClient]
  /\ helperResult' = IF initializeThrows(c) THEN Threw(UnsupportedChainError(c))
                     ELSE Returned(JUndef)
  /\ outcome' = NoCall

\* getClient(chainId) called on its own (it is a public static method)
GetClient(c) ==
  /\ BetweenCalls
  /\ UNCHANGED <<regVars, taskVars, filterVars>>
  /\ callOp' = "getClient"
  /\ callChain' = c
  /\ callInput' = NoCall
  /\ helperResult' = IF getClient(clients, c) = NoClient
                       THEN Threw(ClientNotReadyError(c))
                       ELSE Returned(getClient(clients, c))
  /\ outcome' = NoCall

GetTokenBalancesTool(c, in) ==
  /\ BetweenCalls
  /\ UNCHANGED <<taskVars, filterVars>>
  /\ Consumes(c, in)
  /\ Registers(c)
  /\ callOp' = "getTokenBalances"
  /\ callChain' = c
  /\ callInput' = in
  /\ helperResult' = ThroughAwaits(c, in, getTokenBalances(in.logs))
  /\ outcome' = toolExecute(TokenBalancesResult(helperResult'), TRUE)

GetNFTBalancesTool(c, in) ==
  /\ BetweenCalls
  /\ UNCHANGED <<taskVars, filterVars>>
  /\ Consumes(c, in)
  /\ Registers(c)
  /\ callOp' = "getNFTBalances"
  /\ callChain' = c
  /\ callInput' = in
  /\ helperResult' = ThroughAwaits(c, in, getNFTBalances(in.logs, in.plain))
  /\ outcome' = toolExecute(NFTBalancesResult(helperResult'), TRUE)

GetDexSwapsTool(c, in) ==
  /\ BetweenCalls
  /\ UNCHANGED <<taskVars, filterVars>>
  /\ Consumes(c, in)
  /\ Registers(c)
  /\ callOp' = "getDexSwaps"
  /\ callChain' = c
  /\ callInput' = in
  /\ helperResult' = ThroughAwaits(c, in, getDexSwaps(in.logs))
  /\ outcome' = toolExecute(DexSwapsResult(helperResult'), TRUE)

\* ------------------------------------------------ probe answers (input)
Zeros(n) == [i \in 1..n |-> "0"]
RECURSIVE HexOf(_)
HexOf(n) ==
  IF n < 16 THEN <<HexDigits[n + 1]>>
  ELSE HexOf(n \div 16) \o <<HexDigits[(n % 16) + 1]>>
\* a 32-byte word holding n
Word(n) == Zeros(64 - Len(HexOf(n))) \o HexOf(n)
RECURSIVE HexOfBytes(_)
HexOfBytes(bytes) ==
  IF bytes = <<>> THEN <<>>
  ELSE Zeros(2 - Len(HexOf(Head(bytes)))) \o HexOf(Head(bytes)) \o HexOfBytes(Tail(bytes))

\* the ABI return payload of a string of at most 32 bytes: offset word,
\* length word, the bytes padded to a word
AbiStringPayload(bytes) ==
  S_0x \o Word(32) \o Word(Len(bytes)) \o HexOfBytes(bytes)
       \o Zeros(64 - 2 * Len(bytes))
\* the ABI return payload of a uint8 / uint256
AbiUintPayload(n) == S_0x \o Word(n)

\* strings and numbers a token answers with
StringSamples ==
  { [text |-> <<"U", "S", "D", "C">>, bytes |-> <<85, 83, 68, 67>>],
    [text |-> <<"D", "A", "I">>, bytes |-> <<68, 65, 73>>] }
UintSamples == {6, 1000}

IsStringField(index) == index \in {1, 2}

ProbeAnswers(index) ==
  {ProbeRejects, ProbeUndefined, ProbeOutput(S_0x)} \cup
  (IF IsStringField(index)
     THEN {ProbeOutput(AbiStringPayload(x.bytes)) : x \in StringSamples}
     ELSE {ProbeOutput(AbiUintPayload(n)) : n \in UintSamples})

ProbeInputs ==
  {<<p1, p2, p3, p4>> : p1 \in ProbeAnswers(1), p2 \in ProbeAnswers(2),
                        p3 \in ProbeAnswers(3), p4 \in ProbeAnswers(4)}

\* getTokenMetadataTool: JSON.stringify(metadata), without serializeBigInts
GetTokenMetadataTool(c, tokenAddress, probes) ==
  /\ BetweenCalls
  /\ UNCHANGED <<taskVars, filterVars>>
  /\ initializeThrows(c) <=> probes = <<>>
  /\ Registers(c)
  /\ callOp' = "getTokenMetadata"
  /\ callChain' = c
  /\ callInput' = [tokenAddress |-> tokenAddress, probes |-> probes]
  /\ helperResult' =
       IF initializeThrows(c) THEN Threw(UnsupportedChainError(c))
       ELSE IF getClient(clients', c) = NoClient
         THEN Threw(Error("Error", [msg |-> "Failed to fetch token metadata",
                                    cause |-> ClientNotReadyError(c).message]))
       ELSE getTokenMetadata(tokenAddress, probes)
  /\ outcome' = toolExecute(TokenMetadataResult(helperResult'), FALSE)

\* ---------------------------------------- the tools that do not decode
\* property `key` of an object, undefined when absent
GetProp(obj, key) ==
  IF \E i \in 1..Len(obj.v) : obj.v[i].key = key
    THEN obj.v[CHOOSE i \in 1..Len(obj.v) : obj.v[i].key = key].val
    ELSE JUndef

\* answers of the query service: a rejection, or {data, archiveHeight}
QueryRejected == [rejects |-> TRUE]
QueryAnswer(d, h) == [rejects |-> FALSE, data |-> d, archiveHeight |-> h]
DataSamples ==
  { JObj(<<>>),
    JObj(<<Prop("transactions",
                JArr(<<JObj(<<Prop("hash", JStr(A_a)), Prop("value", JBig(7))>>)>>))>>) }
QueryAnswers ==
  {QueryRejected} \cup
  {QueryAnswer(d, h) : d \in DataSamples, h \in {JNum(100), JUndef}}

AfterQuery(c, resp, value) ==
  UpToQuery(c, IF resp.rejects THEN Threw(QueryServiceError) ELSE Returned(value))

\* getTransactionDetails, getContractEvents, getBlockRange: return response.data
ReturnsData == {"getTransactionDetails", "getContractEvents", "getBlockRange"}

DataTool(o, c, resp) ==
  /\ BetweenCalls
  /\ UNCHANGED <<taskVars, filterVars>>
  /\ o \in ReturnsData
  /\ initializeThrows(c) => resp = QueryRejected
  /\ Registers(c)
  /\ callOp' = o
  /\ callChain' = c
  /\ callInput' = resp
  /\ helperResult' = AfterQuery(c, resp, resp.data)
  /\ outcome' = toolExecute(helperResult', TRUE)

GetTransactionTool(c, resp) == DataTool("getTransactionDetails", c, resp)
GetContractEventsTool(c, resp) == DataTool("getContractEvents", c, resp)
GetBlockRangeTool(c, resp) == DataTool("getBlockRange", c, resp)

GetLatestBlockTool(c, resp) ==
  /\ BetweenCalls
  /\ UNCHANGED <<taskVars, filterVars>>
  /\ initializeThrows(c) => resp = QueryRejected
  /\ Registers(c)
  /\ callOp' = "getLatestBlockNumber"
  /\ callChain' = c
  /\ callInput' = resp
  /\ helperResult' = AfterQuery(c, resp, resp.archiveHeight)
  /\ outcome' = latestBlockExecute(helperResult')

\* getWalletActivity: transactions: response.data.transactions || []
walletActivity(resp) ==
  JObj(<<Prop("transactions",
              IF GetProp(resp.data, "transactions").t = "undefined"
                THEN JArr(<<>>) ELSE GetProp(resp.data, "transactions")),
         Prop("tokenTransfers", JArr(<<>>)),
         Prop("contractInteractions", JArr(<<>>))>>)

GetWalletActivityTool(c, resp) ==
  /\ BetweenCalls
  /\ UNCHANGED <<taskVars, filterVars>>
  /\ initializeThrows(c) => resp = QueryRejected
  /\ Registers(c)
  /\ callOp' = "getWalletActivity"
  /\ callChain' = c
  /\ callInput' = resp
  /\ helperResult' = AfterQuery(c, resp, walletActivity(resp))
  /\ outcome' = toolExecute(helperResult', TRUE)

\* getLiquidityPoolStats: the placeholder value it returns
poolStats(poolAddress) ==
  JObj(<<Prop("address", JStr(poolAddress)), Prop("token0", JStr(S_0x)),
         Prop("token1", JStr(S_0x)),
         Prop("reserves", JArr(<<JBig(0), JBig(0)>>)),
         Prop("totalSupply", JBig(0)), Prop("swaps", JArr(<<>>)),
         Prop("volumeUSD", JNum(0))>>)

GetLiquidityPoolStatsTool(c, poolAddress, resp) ==
  /\ BetweenCalls
  /\ UNCHANGED <<taskVars, filterVars>>
  /\ initializeThrows(c) => resp = QueryRejected
  /\ Registers(c)
  /\ callOp' = "getLiquidityPoolStats"
  /\ callChain' = c
  /\ callInput' = [poolAddress |-> poolAddress, resp |-> resp]
  /\ helperResult' = AfterQuery(c, resp, poolStats(poolAddress))
  /\ outcome' = toolExecute(helperResult', TRUE)

\* getSupportedChainsTool: JSON.stringify(getSupportedChains()), no query
GetSupportedChainsTool ==
  /\ BetweenCalls
  /\ UNCHANGED <<taskVars, filterVars>>
  /\ UNCHANGED regVars
  /\ callOp' = "getSupportedChains"
  /\ callChain' = 0
  /\ callInput' = NotReached
  /\ helperResult' = Returned(JObj([i \in 1..0 |-> 0]))
  /\ outcome' = toolExecute(helperResult', FALSE)

\* The caller takes the outcome of its call.
TakeOutcome ==
  /\ callOp # "none"
  /\ callOp' = "none"
  /\ callChain' = 0
  /\ callInput' = NoCall
  /\ helperResult' = NoCall
  /\ outcome' = NoCall
  /\ UNCHANGED <<regVars, taskVars, filterVars>>

TokenBalancesInputs == DecodeInputs(TransferLogs, MaxLogs, {FALSE}) \cup {NotReached}
NftBalancesInputs == DecodeInputs(NftLogs, MaxNftLogs, BOOLEAN) \cup {NotReached}
DexSwapsInputs == DecodeInputs(SwapLogs, MaxLogs, {FALSE}) \cup {NotReached}
MetadataInputs == ProbeInputs \cup {<<>>}

NextCalls ==
  \/ TakeOutcome
  \/ BetweenCalls /\ \E c \in ChainIds : Initialize(c)
  \/ BetweenCalls /\ \E c \in ChainIds : GetClient(c)
  \/ BetweenCalls /\ \E c \in ChainIds, in \in TokenBalancesInputs :
       GetTokenBalancesTool(c, in)
  \/ BetweenCalls /\ \E c \in ChainIds, in \in NftBalancesInputs :
       GetNFTBalancesTool(c, in)
  \/ BetweenCalls /\ \E c \in ChainIds, in \in DexSwapsInputs :
       GetDexSwapsTool(c, in)
  \/ BetweenCalls /\ \E c \in ChainIds, a \in Addresses, p \in MetadataInputs :
       GetTokenMetadataTool(c, a, p)
  \/ BetweenCalls /\ \E c \in ChainIds, r \in QueryAnswers : GetTransactionTool(c, r)
  \/ BetweenCalls /\ \E c \in ChainIds, r \in QueryAnswers : GetContractEventsTool(c, r)
  \/ BetweenCalls /\ \E c \in ChainIds, r \in QueryAnswers : GetBlockRangeTool(c, r)
  \/ BetweenCalls /\ \E c \in ChainIds, r \in QueryAnswers : GetLatestBlockTool(c, r)
  \/ BetweenCalls /\ \E c \in ChainIds, r \in QueryAnswers : GetWalletActivityTool(c, r)
  \/ BetweenCalls /\ \E c \in ChainIds, a \in Addresses, r \in QueryAnswers :
       GetLiquidityPoolStatsTool(c, a, r)
  \/ BetweenCalls /\ GetSupportedChainsTool

TasksIdle ==
  /\ pc = [t \in Tasks |-> "idle"]
  /\ op = [t \in Tasks |-> "none"]
  /\ chain = [t \in Tasks |-> 0]
  /\ handle = [t \in Tasks |-> NoClient]
  /\ result = [t \in Tasks |-> None]
  /\ queries = [t \in Tasks |-> 0]

InitCalls == RegInit /\ CallsInit /\ FilterInit /\ TasksIdle

\* ======================================================================
\* SpecFilter: the log filters of getTokenBalances and getNFTBalances, and
\* the ledger logs they select.
\* ======================================================================
\* the event signatures the decoder is built from: parameters in order,
\* with their `indexed` flag
Param(n, ix) == [name |-> n, indexed |-> ix]
SIG_ERC20_TRANSFER ==
  [event |-> "Transfer", topic0 |-> ERC20_TRANSFER_TOPIC,
   params |-> <<Param("from", TRUE), Param("to", TRUE), Param("amount", FALSE)>>]
SIG_ERC721_TRANSFER ==
  [event |-> "Transfer", topic0 |-> ERC721_TRANSFER_TOPIC,
   params |-> <<Param("from", TRUE), Param("to", TRUE), Param("tokenId", TRUE)>>]
SIG_TRANSFER_SINGLE ==
  [event |-> "TransferSingle", topic0 |-> ERC1155_TRANSFER_SINGLE_TOPIC,
   params |-> <<Param("operator", TRUE), Param("from", TRUE), Param("to", TRUE),
                Param("id", FALSE), Param("value", FALSE)>>]
SIG_TRANSFER_BATCH ==
  [event |-> "TransferBatch", topic0 |-> ERC1155_TRANSFER_BATCH_TOPIC,
   params |-> <<Param("operator", TRUE), Param("from", TRUE), Param("to", TRUE),
                Param("ids", FALSE), Param("values", FALSE)>>]
TransferSignatures ==
  {SIG_ERC20_TRANSFER, SIG_ERC721_TRANSFER, SIG_TRANSFER_SINGLE, SIG_TRANSFER_BATCH}

\* the index in log.topics (topic0 at 0) of indexed parameter `name`
TopicIndexOf(sig, name) ==
  LET p == CHOOSE i \in 1..Len(sig.params) : sig.params[i].name = name
  IN Cardinality({i \in 1..p : sig.params[i].indexed})

\* String.prototype.toLowerCase on the characters of a hex string
LowerChar(c) ==
  CASE c = "A" -> "a" [] c = "B" -> "b" [] c = "C" -> "c" [] c = "D" -> "d"
    [] c = "E" -> "e" [] c = "F" -> "f" [] c = "X" -> "x" [] OTHER -> c
toLowerCase(str) == [i \in 1..Len(str) |-> LowerChar(str[i])]

\* ethers.zeroPadValue(data, length): data left-padded with zero bytes
zeroPadValue(data, length) ==
  S_0x \o Zeros(2 * length - (Len(data) - 2)) \o SubSeq(data, 3, Len(data))

\* variant: the wallet is padded on the right
zeroPadRight(data, length) ==
  data \o Zeros(2 * length - (Len(data) - 2))

\* const paddedAddress = ethers.zeroPadValue(walletAddress.toLowerCase(), 32)
paddedAddress(walletAddress) == zeroPadValue(toLowerCase(walletAddress), 32)

\* a topic position without a constraint (null)
AnyTopic == {}

\* the `logs` of the query getTokenBalances builds
tokenBalancesLogs(walletAddress) ==
  << [topics |-> << {ERC20_TRANSFER_TOPIC}, AnyTopic, {paddedAddress(walletAddress)} >>] >>

\* the `logs` of the query getNFTBalances builds
nftBalancesLogs(walletAddress) ==
  << [topics |-> << {ERC721_TRANSFER_TOPIC}, AnyTopic, {paddedAddress(walletAddress)} >>],
     [topics |-> << {ERC1155_TRANSFER_SINGLE_TOPIC, ERC1155_TRANSFER_BATCH_TOPIC},
                    AnyTopic, {paddedAddress(walletAddress)} >>] >>

\* ------------------------------------------------------------ the ledger
RECURSIVE Repeat(_, _)
Repeat(str, n) == IF n = 0 THEN <<>> ELSE str \o Repeat(str, n - 1)
\* 20-byte addresses; a caller may pass a wallet in mixed case
W_1 == S_0x \o Repeat(<<"A", "b">>, 20)
W_2 == S_0x \o Repeat(<<"1", "2">>, 20)
Wallets == {W_1, W_2}
Parties == {toLowerCase(w) : w \in Wallets}

\* a transfer event on the ledger: its signature and the operator, sender and
\* recipient it was emitted with
Transfers ==
  [sig : TransferSignatures, operator : Parties, from : Parties, to : Parties]

\* the topics of the log of transfer x: topic0, then the indexed parameters
ArgOf(x, name) ==
  CASE name = "operator" -> zeroPadValue(x.operator, 32)
    [] name = "from" -> zeroPadValue(x.from, 32)
    [] name = "to" -> zeroPadValue(x.to, 32)
    [] OTHER -> zeroPadValue(<<"0", "x", "0", "1">>, 32)
TopicsOf(x) ==
  LET ixd == SelectSeq(x.sig.params, LAMBDA p : p.indexed)
  IN <<x.sig.topic0>> \o [i \in 1..Len(ixd) |-> ArgOf(x, ixd[i].name)]

\* the query service's matching: every constrained topic position holds one
\* of the listed values
MatchesFilter(filter, topics) ==
  \A i \in 1..Len(filter.topics) :
    filter.topics[i] # AnyTopic =>
      (i <= Len(topics) /\ topics[i] \in filter.topics[i])
Selects(logs, x) == \E k \in 1..Len(logs) : MatchesFilter(logs[k], TopicsOf(x))

BetweenQueries == qOp = "none"

\* getTokenBalances up to the answer of the query service
TokenBalancesQuery(w, ledger) ==
  /\ BetweenQueries
  /\ qOp' = "getTokenBalances"
  /\ qWallet' = w
  /\ qLogs' = tokenBalancesLogs(w)
  /\ qSelected' = SelectSeq(ledger, LAMBDA x : Selects(tokenBalancesLogs(w), x))
  /\ UNCHANGED <<regVars, taskVars, callVars>>

\* getNFTBalances up to the answer of the query service
NFTBalancesQuery(w, ledger) ==
  /\ BetweenQueries
  /\ qOp' = "getNFTBalances"
  /\ qWallet' = w
  /\ qLogs' = nftBalancesLogs(w)
  /\ qSelected' = SelectSeq(ledger, LAMBDA x : Selects(nftBalancesLogs(w), x))
  /\ UNCHANGED <<regVars, taskVars, callVars>>

\* the operation goes on with the answer
TakeAnswer ==
  /\ qOp # "none"
  /\ qOp' = "none"
  /\ qWallet' = <<>>
  /\ qLogs' = <<>>
  /\ qSelected' = <<>>
  /\ UNCHANGED <<regVars, taskVars, callVars>>

Ledgers == SeqsUpTo(Transfers, MaxLedger)

NextFilter ==
  \/ \E w \in Wallets, ledger \in Ledgers : TokenBalancesQuery(w, ledger)
  \/ \E w \in Wallets, ledger \in Ledgers : NFTBalancesQuery(w, ledger)
  \/ TakeAnswer

InitFilter == RegInit /\ CallsInit /\ FilterInit /\ TasksIdle

\* ======================================================================
\* SpecSerialize: serializeBigInts applied to nested structures.
\* ======================================================================
\* 2^64, -(2^64), 10^21, 1000007, 5, -5, 0
BigSamples ==
  { JBigWide(FALSE, <<18, 446, 744, 73, 709, 551, 616>>),
    JBigWide(TRUE, <<18, 446, 744, 73, 709, 551, 616>>),
    JBigWide(FALSE, <<1, 0, 0, 0, 0, 0, 0, 0>>),
    JBigWide(FALSE, <<1, 0, 7>>),
    JBigWide(FALSE, <<5>>),
    JBigWide(TRUE, <<5>>),
    JBigWide(FALSE, <<0>>) }
PlainLeaves == {JStr(A_a), JNum(7), JUndef}
Leaves == BigSamples \cup PlainLeaves
LeafArrays == {JArr(a) : a \in SeqsUpTo(Leaves, MaxItems)}
FlatObjects ==
  {JObj(<<Prop("balance", x)>>) : x \in Leaves} \cup
  {JObj(<<Prop("token", x), Prop("balance", y)>>) : x \in PlainLeaves, y \in BigSamples}
\* arrays of objects and objects holding arrays, as the views are
NestedSamples ==
  {JArr(a) : a \in SeqsUpTo(FlatObjects, MaxItems)} \cup
  {JObj(<<Prop("reserves", x), Prop("totalSupply", y)>>) :
     x \in LeafArrays, y \in BigSamples}
Structures == Leaves \cup LeafArrays \cup FlatObjects \cup NestedSamples

\* serializeBigInts(obj), and JSON.stringify of what it returns
Serialize(obj) ==
  /\ BetweenCalls
  /\ callOp' = "serializeBigInts"
  /\ callChain' = 0
  /\ callInput' = obj
  /\ helperResult' = Returned(serializeBigInts(obj))
  /\ outcome' = JSONstringify(serializeBigInts(obj))
  /\ UNCHANGED <<regVars, taskVars, filterVars>>

NextSerialize ==
  \/ TakeOutcome
  \/ BetweenCalls /\ \E obj \in Structures : Serialize(obj)

InitSerialize == RegInit /\ CallsInit /\ FilterInit /\ TasksIdle

vars == <<regVars, taskVars, callVars, filterVars>>

Spec == Init /\ [][Next]_vars

SpecCalls == InitCalls /\ [][NextCalls]_vars

SpecFilter == InitFilter /\ [][NextFilter]_vars

SpecSerialize == InitSerialize /\ [][NextSerialize]_vars

\* ======================================================================
\* Claims
\* ======================================================================

\* C1: a call of initialize, or of an operation that begins with it, for a
\* chain id that is not a key of the catalog fails with the
\* unsupported-chain error; the client map holds no entry for that chain id
\* afterwards and the decoder is as it was before the call.
C1_UnsupportedChainFails ==
  [][ /\ (callChain' # 0 /\ callChain' \notin SUPPORTED_CHAINS
            /\ callOp' # "getClient") =>
           /\ helperResult' = Threw(UnsupportedChainError(callChain'))
           /\ clients'[callChain'] = NoClient
           /\ decoder' = decoder
           /\ decoderBuilt' = decoderBuilt
      /\ \A c \in ChainIds \ SUPPORTED_CHAINS : clients'[c] = NoClient
    ]_vars

\* initialize(2) has failed after the registry was populated
C1_Witness ==
  /\ callOp = "initialize"
  /\ callChain \notin SUPPORTED_CHAINS
  /\ helperResult = Threw(UnsupportedChainError(callChain))
  /\ decoder # NoDecoder
  /\ clients[callChain] = NoClient

\* C2: once a chain has its client, no later call (for that chain or another)
\* changes its cached handle or constructs the decoder again, and initialize
\* for that chain returns leaving the registry as it was.
C2_InitializeIdempotent ==
  [][ /\ \A c \in ChainIds :
           clients[c] # NoClient =>
             /\ clients'[c] = clients[c]
             /\ built'[c] = built[c]
             /\ decoder' = decoder
             /\ decoderBuilt' = decoderBuilt
      /\ (callOp' = "initialize" /\ callInput'.hadClient) =>
           /\ helperResult' = Returned(JUndef)
           /\ UNCHANGED regVars
    ]_vars

\* initialize(1) was called again after initialize(1) and initialize(10)
C2_Witness ==
  /\ callOp = "initialize"
  /\ callChain = 1
  /\ callInput.hadClient
  /\ clients[1] # NoClient
  /\ clients[10] # NoClient
  /\ ~helperResult.threw

\* C4: every tool ends with {success: true, data} or {success: false,
\* error: message}; what the helper throws becomes the tagged failure.
IsToolCall == callOp \notin {"none", "initialize", "getClient"}
C4_TaggedOutcome ==
  IsToolCall =>
    /\ "success" \in DOMAIN outcome
    /\ \/ outcome.success /\ DOMAIN outcome = {"success", "data"}
       \/ ~outcome.success /\ DOMAIN outcome = {"success", "error"}
    /\ helperResult.threw =>
         outcome = [success |-> FALSE, error |-> helperResult.error.message]

\* getDexSwaps threw a TypeError and the tool returned the tagged failure
C4_Witness ==
  /\ callOp = "getDexSwaps"
  /\ helperResult.threw
  /\ helperResult.error.name = "TypeError"
  /\ outcome = [success |-> FALSE, error |-> TypeErrorNull.message]

\* the non-null entries of a decoded answer
NonNullIdx(logs) == {i \in 1..Len(logs) : ~logs[i].isNull}
AwaitsPassed ==
  /\ callChain \in SUPPORTED_CHAINS
  /\ callInput.get = "ok"
  /\ callInput.decode = "ok"

RECURSIVE SumAmounts(_, _)
SumAmounts(logs, I) ==
  IF I = {} THEN 0
  ELSE LET i == CHOOSE x \in I : TRUE
       IN logs[i].body[1].val + SumAmounts(logs, I \ {i})

\* C5: getTokenBalances returns exactly one entry per distinct emitting
\* address among the non-null events, and its balance is the sum of the first
\* body fields of all non-null events of that address.
C5_BalancesAreSums ==
  (callOp = "getTokenBalances" /\ AwaitsPassed) =>
    LET logs == callInput.logs
        nn == NonNullIdx(logs)
        tokens == {logs[i].address : i \in nn}
    IN /\ (\A i \in nn : Len(logs[i].body) >= 1) <=> ~helperResult.threw
       /\ ~helperResult.threw =>
            LET r == helperResult.value IN
            /\ Len(r) = Cardinality(tokens)
            /\ \A j \in 1..Len(r) : r[j].token \in tokens
            /\ \A tok \in tokens :
                 \E j \in 1..Len(r) :
                   /\ r[j].token = tok
                   /\ r[j].balance =
                        SumAmounts(logs, {i \in nn : logs[i].address = tok})

\* token a received 1 and 2, token b received 2
C5_Witness ==
  /\ callOp = "getTokenBalances"
  /\ Len(callInput.logs) = 3
  /\ helperResult = Returned(<<[token |-> A_a, balance |-> 3],
                               [token |-> A_b, balance |-> 2]>>)

\* C3: however the running operations interleave at their awaits, at most
\* one client is constructed for a chain id, and a cached handle is never
\* replaced or removed.
C3_OneClientPerChain ==
  [][ /\ \A c \in ChainIds : built'[c] <= 1
      /\ \A c \in ChainIds : clients[c] # NoClient => clients'[c] = clients[c]
      /\ \A t \in Tasks :
           pc'[t] \in {"get", "decode"} => handle'[t] = clients'[chain'[t]]
    ]_vars

\* two operations on chain 1 are suspended at their query, on the same handle
C3_Witness ==
  /\ \A t \in {1, 2} : pc[t] = "get" /\ chain[t] = 1
  /\ handle[1] = handle[2]
  /\ handle[1] # NoClient
  /\ built[1] = 1

\* the (contract address, token id) of a decoded event as getNFTBalances reads it
NftKeyOf(log, plain) == <<log.address, SolToString(log.body[1], plain)>>
\* the entries getNFTBalances stores come from these events
NftIdx(logs) ==
  {i \in NonNullIdx(logs) :
     logs[i].topic0 \in {ERC721_TRANSFER_TOPIC, ERC1155_TRANSFER_SINGLE_TOPIC}}

\* C6: the output of getNFTBalances has no two entries with the same
\* (contract address, token id), and the entry of a key is the one made of
\* the last event of that key in the decoded sequence.
C6_LastEventWins ==
  (callOp = "getNFTBalances" /\ AwaitsPassed) =>
    LET logs == callInput.logs
        plain == callInput.plain
        I == NftIdx(logs)
    IN /\ (\A i \in I : Len(logs[i].body) >= 1) <=> ~helperResult.threw
       /\ ~helperResult.threw =>
            LET r == helperResult.value
                LastOf(i) == CHOOSE k \in I :
                               /\ NftKeyOf(logs[k], plain) = NftKeyOf(logs[i], plain)
                               /\ \A m \in I :
                                    NftKeyOf(logs[m], plain) = NftKeyOf(logs[i], plain)
                                      => m <= k
                Made(k) == IF logs[k].topic0 = ERC721_TRANSFER_TOPIC
                             THEN [contractAddress |-> logs[k].address,
                                   tokenId |-> SolToString(logs[k].body[1], plain),
                                   standard |-> S_ERC721, balance |-> JBig(1)]
                             ELSE [contractAddress |-> logs[k].address,
                                   tokenId |-> SolToString(logs[k].body[1], plain),
                                   standard |-> S_ERC1155,
                                   balance |-> IF Len(logs[k].body) >= 2
                                                 THEN SolJs(logs[k].body[2])
                                                 ELSE JUndef]
            IN /\ \A j, k \in 1..Len(r) :
                    (r[j].contractAddress = r[k].contractAddress
                       /\ r[j].tokenId = r[k].tokenId) => j = k
               /\ \A i \in I : \E j \in 1..Len(r) : r[j] = Made(LastOf(i))
               /\ \A j \in 1..Len(r) :
                    \E i \in I : NftKeyOf(logs[i], plain) =
                                   <<r[j].contractAddress, r[j].tokenId>>

\* an ERC721 event of (a, 1) is followed by an ERC1155 event of (a, 1): one
\* entry remains, the later one
C6_Witness ==
  /\ callOp = "getNFTBalances"
  /\ AwaitsPassed
  /\ ~callInput.plain
  /\ callInput.logs = <<Event(A_a, ERC721_TRANSFER_TOPIC, <<SolValue(1)>>),
                        Event(A_a, ERC1155_TRANSFER_SINGLE_TOPIC,
                              <<SolValue(1), SolValue(2)>>)>>
  /\ ~helperResult.threw
  /\ Len(helperResult.value) = 1
  /\ helperResult.value[1].standard = S_ERC1155

\* the probes of the last getTokenMetadata call
Probes == callInput.probes
\* probe `index` answered with the well-formed payload of value v
EncodesString(index, v) ==
  \E x \in StringSamples :
    x.text = v /\ Probes[index] = ProbeOutput(AbiStringPayload(x.bytes))
EncodesUint(index, n) == Probes[index] = ProbeOutput(AbiUintPayload(n))
\* probe `index` failed, or answered no transaction or "0x"
ProbeEmpty(index) == Probes[index] \in {ProbeRejects, ProbeUndefined, ProbeOutput(S_0x)}
MetadataCall == callOp = "getTokenMetadata" /\ callChain \in SUPPORTED_CHAINS

\* field `index` of metadata m is what its own probe determines: the decoded
\* value of a well-formed payload, the default otherwise
FieldFollowsProbe(m, index) ==
  /\ index = 1 => /\ \A x \in StringSamples : EncodesString(1, x.text) => m.name = x.text
                  /\ ProbeEmpty(1) => m.name = S_Unknown
  /\ index = 2 => /\ \A x \in StringSamples : EncodesString(2, x.text) => m.symbol = x.text
                  /\ ProbeEmpty(2) => m.symbol = S_UNKNOWN
  /\ index = 3 => /\ \A n \in UintSamples : EncodesUint(3, n) => m.decimals = n
                  /\ ProbeEmpty(3) => m.decimals = DEFAULT_DECIMALS
  /\ index = 4 => /\ \A n \in UintSamples : EncodesUint(4, n) => m.totalSupply = n
                  /\ ProbeEmpty(4) => m.totalSupply = DEFAULT_TOTAL_SUPPLY

\* C7 (as claimed): a field whose probe returns a non-empty well-formed
\* payload holds the value decoded from that payload, not the default.
C7_DecodedFieldReturned ==
  (MetadataCall /\ ~helperResult.threw) =>
    \A index \in 1..4 :
      ~ProbeEmpty(index) => FieldFollowsProbe(helperResult.value, index)

\* C8 (as claimed): when the probe of one field fails or returns empty data,
\* getTokenMetadata still returns a metadata value: that field holds its
\* default and every other field is determined by its own probe.
C8_FieldFaultIsolated ==
  (MetadataCall /\ \E index \in 1..4 : ProbeEmpty(index)) =>
    /\ ~helperResult.threw
    /\ \A index \in 1..4 : FieldFollowsProbe(helperResult.value, index)

\* what the operation returns for a decoded answer
FoldOf(o, logs, plain) ==
  IF o = "getTokenBalances" THEN getTokenBalances(logs)
  ELSE IF o = "getNFTBalances" THEN getNFTBalances(logs, plain)
  ELSE getDexSwaps(logs)
WithoutNulls(logs) == SelectSeq(logs, LAMBDA l : ~l.isNull)

\* C9 (as claimed): getTokenBalances, getNFTBalances and getDexSwaps skip the
\* null entries of the decoded answer: the operation does what it does on the
\* answer without them.
C9_NullEntriesSkipped ==
  (callOp \in DecodingOps /\ AwaitsPassed) =>
    helperResult = FoldOf(callOp, WithoutNulls(callInput.logs), callInput.plain)

\* C10 (as claimed): in the filters of getTokenBalances and getNFTBalances,
\* for every event selected by topic0 the padded wallet sits at the topic
\* position of that event's indexed `to`, so that only transfers whose
\* recipient is the wallet are selected.
C10_WalletAtToPosition ==
  qOp # "none" =>
    /\ \A k \in 1..Len(qLogs) :
         \A sig \in TransferSignatures :
           sig.topic0 \in qLogs[k].topics[1] =>
             /\ TopicIndexOf(sig, "to") + 1 <= Len(qLogs[k].topics)
             /\ qLogs[k].topics[TopicIndexOf(sig, "to") + 1] =
                  {zeroPadValue(toLowerCase(qWallet), 32)}
    /\ \A i \in 1..Len(qSelected) : qSelected[i].to = toLowerCase(qWallet)

\* ---------------------------------------------------------------- C11
\* the value of a decimal digit
DigitVal(c) == (CHOOSE k \in 1..10 : DigitChars[k] = c) - 1
IsDigits(str) == Len(str) >= 1 /\ \A i \in 1..Len(str) : \E k \in 1..10 : DigitChars[k] = str[i]
\* the integer a string of at most three digits denotes
RECURSIVE DigitsValue(_)
DigitsValue(str) ==
  IF str = <<>> THEN 0
  ELSE 10 * DigitsValue(SubSeq(str, 1, Len(str) - 1)) + DigitVal(str[Len(str)])
\* string parsing of an integer, BigInt(str): the sign, then the digits in
\* limbs of three from the right
ParseBigInt(str) ==
  LET neg == Len(str) >= 1 /\ str[1] = "-"
      ds == IF neg THEN Tail(str) ELSE str
      k == (Len(ds) + 2) \div 3
      first == Len(ds) - 3 * (k - 1)
      Limb(i) == IF i = 1 THEN DigitsValue(SubSeq(ds, 1, first))
                 ELSE DigitsValue(SubSeq(ds, first + 3 * (i - 2) + 1, first + 3 * (i - 1)))
  IN IF ~IsDigits(ds) THEN [t |-> "SyntaxError"]
     ELSE JBigWide(neg, [i \in 1..k |-> Limb(i)])
\* the structure conv with the leaves that stand where orig holds a bigint
\* parsed back
RECURSIVE ParseBack(_, _)
ParseBack(orig, conv) ==
  IF orig.t = "bigint"
    THEN IF conv.t = "string" THEN ParseBigInt(conv.v) ELSE [t |-> "mismatch"]
  ELSE IF orig.t = "array" /\ conv.t = "array" /\ Len(conv.v) = Len(orig.v)
    THEN JArr([i \in 1..Len(conv.v) |-> ParseBack(orig.v[i], conv.v[i])])
  ELSE IF orig.t = "object" /\ conv.t = "object" /\ Len(conv.v) = Len(orig.v)
    THEN JObj([i \in 1..Len(conv.v) |->
                 Prop(conv.v[i].key, ParseBack(orig.v[i].val, conv.v[i].val))])
  ELSE conv

\* C11: serializeBigInts leaves no bigint in the structure, and parsing the
\* converted leaves back gives the original structure: the same integers,
\* the same keys in the same order, the same array order.
C11_RoundTrip ==
  callOp = "serializeBigInts" =>
    /\ ~helperResult.threw
    /\ ~HasBigInt(helperResult.value)
    /\ ParseBack(callInput, helperResult.value) = callInput
    /\ ~outcome.threw

\* an object holding an array with 2^64 and -(2^64) and a total of 10^21
C11_Witness ==
  /\ callOp = "serializeBigInts"
  /\ callInput =
       JObj(<<Prop("reserves",
                   JArr(<<JBigWide(FALSE, <<18, 446, 744, 73, 709, 551, 616>>),
                          JBigWide(TRUE, <<18, 446, 744, 73, 709, 551, 616>>)>>)),
              Prop("totalSupply", JBigWide(FALSE, <<1, 0, 0, 0, 0, 0, 0, 0>>))>>)
  /\ helperResult.value.v[2].val =
       JStr(<<"1", "0", "0", "0", "0", "0", "0", "0", "0", "0", "0",
              "0", "0", "0", "0", "0", "0", "0", "0", "0", "0", "0">>)
  /\ helperResult.value.v[1].val.v[2].v[1] = "-"

\* ---------------------------------------------------------------- C12
IsClientNotReady(r) ==
  r.threw /\ r.error.message.msg = "Client for chain ID not initialized"

\* C12: no derivation operation fails with the client-not-initialized error,
\* since each calls initialize before getClient; getClient called on its own
\* fails with it exactly when no initialize of that chain has succeeded
\* before.
C12_ClientReadyInOperations ==
  /\ callOp \in Ops => ~IsClientNotReady(helperResult)
  /\ callOp = "getClient" =>
       /\ IsClientNotReady(helperResult) <=> built[callChain] = 0
       /\ ~helperResult.threw => helperResult.value = clients[callChain]

\* getTokenBalances on a chain nobody initialized before: the call itself
\* cached the one client there is and went on to its query
C12_Witness ==
  /\ callOp = "getTokenBalances"
  /\ ~initializeThrows(callChain)
  /\ SumBuilt(built, ChainIds) = 1
  /\ ~helperResult.threw

AnswerOf(resp, value) ==
  IF resp.rejects THEN Threw(QueryServiceError) ELSE Returned(value)
FoldAnswer(in, fold) ==
  IF in.get = "reject" THEN Threw(QueryServiceError)
  ELSE IF in.decode = "reject" THEN Threw(DecodeError)
  ELSE fold
ResultOf(o, c, in) ==
  IF c \notin SUPPORTED_CHAINS THEN Threw(UnsupportedChainError(c))
  ELSE CASE o = "getTokenBalances" -> FoldAnswer(in, getTokenBalances(in.logs))
         [] o = "getNFTBalances" -> FoldAnswer(in, getNFTBalances(in.logs, in.plain))
         [] o = "getDexSwaps" -> FoldAnswer(in, getDexSwaps(in.logs))
         [] o = "getTokenMetadata" -> getTokenMetadata(in.tokenAddress, in.probes)
         [] o \in ReturnsData -> AnswerOf(in, in.data)
         [] o = "getLatestBlockNumber" -> AnswerOf(in, in.archiveHeight)
         [] o = "getWalletActivity" -> AnswerOf(in, walletActivity(in))
         [] o = "getLiquidityPoolStats" -> AnswerOf(in.resp, poolStats(in.poolAddress))

\* C14: whatever calls came before, a derivation call returns what its
\* arguments and its own responses determine, and of the shared state it
\* changes nothing but clients[chainId] and the decoder, each only from unset
\* to set.
C14_NoDerivedStateKept ==
  [][callOp' \in Ops =>
       /\ helperResult' = ResultOf(callOp', callChain', callInput')
       /\ \A d \in ChainIds :
            (d # callChain' \/ clients[d] # NoClient) =>
               clients'[d] = clients[d] /\ built'[d] = built[d]
       /\ decoder # NoDecoder => decoder' = decoder /\ decoderBuilt' = decoderBuilt
       /\ UNCHANGED <<taskVars, filterVars>>]_vars

\* getTokenBalances on chain 1 after earlier calls for chains 1 and 10 (both
\* clients are cached; the call builds none): the totals are those of its own
\* two events
C14_Witness ==
  /\ callOp = "getTokenBalances"
  /\ callChain = 1
  /\ built[1] = 1 /\ built[10] = 1
  /\ AwaitsPassed
  /\ callInput.logs = <<Event(A_a, ERC20_TRANSFER_TOPIC, <<SolValue(2)>>),
                        Event(A_a, ERC20_TRANSFER_TOPIC, <<SolValue(1)>>)>>
  /\ ~helperResult.threw
  /\ Len(helperResult.value) = 1
  /\ helperResult.value[1].balance = 3

\* ---------------------------------------------------------------- C15
\* the decoded form of a selected transfer as getNFTBalances reads it: the
\* emitting contract, topic0 and one decoded body field
DecodedTransfer(x) == Event(A_a, x.sig.topic0, <<SolValue(1)>>)
HoldingsOf(x) == getNFTBalances(<<DecodedTransfer(x)>>, FALSE)

\* C15 (as claimed): the NFT query selects no ERC20 Transfer log, a holding
\* tagged ERC721 comes only from an ERC721 Transfer event, and a
\* TransferBatch event yields no entry.
C15_OnlyErc721TaggedErc721 ==
  qOp = "getNFTBalances" =>
    \A i \in 1..Len(qSelected) :
      /\ qSelected[i].sig # SIG_ERC20_TRANSFER
      /\ (/\ ~HoldingsOf(qSelected[i]).threw
          /\ \E j \in 1..Len(HoldingsOf(qSelected[i]).value) :
               HoldingsOf(qSelected[i]).value[j].standard = S_ERC721)
           => qSelected[i].sig = SIG_ERC721_TRANSFER
      /\ qSelected[i].sig = SIG_TRANSFER_BATCH =>
           HoldingsOf(qSelected[i]) = Returned(<<>>)

\* ---------------------------------------------------------------- C16
\* C16 (as claimed): a tool whose helper operation returned a view answers
\* {success: true, data}, and answers a tagged failure only when the helper
\* operation failed.
C16_ReturnedViewSucceeds ==
  IsToolCall =>
    /\ ~helperResult.threw => outcome.success
    /\ ~outcome.success => helperResult.threw

\* ---------------------------------------------------------------- C17
\* C17: whenever some chain has a cached client the decoder is constructed;
\* the decoder is constructed at most once, however many chains are
\* initialized and in whatever order; no operation is at its decode step
\* without a decoder.
C17_DecoderWithFirstClient ==
  /\ (\E c \in ChainIds : clients[c] # NoClient) <=> decoder # NoDecoder
  /\ decoderBuilt <= 1
  /\ decoderBuilt = 1 <=> decoder # NoDecoder
  /\ \A t \in Tasks : pc[t] = "decode" => decoder # NoDecoder

\* chains 1 and 10 both have their client, one decoder was constructed, and
\* an operation on chain 10 is at its decode step
C17_Witness ==
  /\ built[1] = 1 /\ built[10] = 1
  /\ clients[1] # clients[10]
  /\ decoderBuilt = 1
  /\ \E t \in Tasks : pc[t] = "decode" /\ chain[t] = 10

====
